---------------------------- MODULE Spec2Model ----------------------------
(***************************************************************************)
(* Discrete-event simulation engine (grappy / d2simrs): the scheduler of   *)
(* src/src/scheduler.rs, the driver of src/src/sim.rs and the spanning-    *)
(* tree example of src/examples/asyncnetwork/spanning_tree.                *)
(*                                                                         *)
(* Six specifications share the variables and the driver:                  *)
(*   Spec         the driver with arbitrary client components: a handler   *)
(*                is any sequence of calls of the scheduler's public API   *)
(*                (send_msg_delayed, send_msg, sched_receive_msg,          *)
(*                sched_self_event, next_event, sim_error);                *)
(*   LiveSpec     the same up to run(), with a fair run loop;              *)
(*   TopoSpec     topology setup alone (add_process, add_channel);         *)
(*   TreeSpec     the driver with the example's Process components;        *)
(*   TreeLiveSpec the same, with a fair run loop;                          *)
(*   GraphSpec    the example's processes on simple graphs, with zero      *)
(*                delays as well.                                          *)
(* Times are in milliseconds.  A panic (assert!, unwrap of None) ends the  *)
(* program: pc = "panic".                                                  *)
(***************************************************************************)
EXTENDS Integers, Sequences, FiniteSets, TLC

\* ---- bounds of the model ------------------------------------------------
MaxIds == 3
MaxDelta == 1
MaxDelay == 1
MaxEvents == 2
MaxTopoIds == 5
MaxTreeProcs == 3
MaxTreeChannels == 2
MaxUid == 3
MaxTreeDelay == 2
MaxGraphProcs == 3
MaxGraphChannels == 3
MaxLiveIds == 2

\* ---- program constants --------------------------------------------------
FIRST_ID == 1
NO_DELTA == 0
DELAY_MS_LO == 1
DELAY_MS_HI == 10

VARIABLES
    ID_COUNTER,   \* sim.rs:8, the shared atomic id counter
    components,   \* Simulation.components: id -> component
    channels,     \* Simulation.channels: id -> channel
    has_root,     \* ProcessBuilder.has_root
    events,       \* Scheduler.events: the heap's elements
    curr_time,    \* Scheduler.curr_time
    sim_status,   \* Scheduler.sim_status
    pc,           \* the driver's position
    todo,         \* components the running call_init / call_terminate loop has not visited
    uids,         \* uids the uid generator has handed out
    \* history variables
    op,           \* the last operation and what it returned
    hist,         \* per event ever scheduled: the event and its dispatches
    lastPop,      \* time of the last event a pop returned
    termCount,    \* per component: terminate calls received
    valCount,     \* calls of the validation predicate
    valSeen,      \* the component set the validation predicate was given
    failedIn,     \* where sim_error was first called ("": never)
    initCount     \* per component: init calls received

vars == <<ID_COUNTER, components, channels, has_root, events, curr_time,
          sim_status, pc, todo, uids, op, hist, lastPop,
          termCount, valCount, valSeen, failedIn, initCount>>

topo == <<ID_COUNTER, components, channels, has_root, uids>>
sched == <<events, curr_time, sim_status>>
termv == <<termCount, valCount, valSeen, failedIn, initCount>>

\* ---- values -------------------------------------------------------------
EndSimulation == 0
NoMsg == [root |-> 0, sender |-> 0]

Ids == DOMAIN components \cup DOMAIN channels

\* Every id the counter has handed out.
Minted == FIRST_ID .. (ID_COUNTER - 1)

\* ---- SimTime ------------------------------------------------------------
SimTimeSub(time, delta) == time - delta

SimTimeAdd(time, delta) == time + delta

is_zero(time) == time = 0

Cmp(a, b) == IF a < b THEN "Less" ELSE IF a = b THEN "Equal" ELSE "Greater"

Reverse(o) == IF o = "Less" THEN "Greater" ELSE IF o = "Greater" THEN "Less" ELSE "Equal"

\* ---- ScheduledEvent -----------------------------------------------------
ScheduledEventCmpPlain(a, b) == Cmp(a.time, b.time)

ScheduledEventCmp(a, b) == Reverse(Cmp(a.time, b.time))

\* BinaryHeap::pop returns a greatest element under Ord; which one among
\* equal elements is not specified, so every greatest element is possible.
HeapTop(q) == {e \in q : \A f \in q : ScheduledEventCmp(e, f) # "Less"}

ScheduledEvent(id, time, type, sender, receiver, channel, message, why) ==
    [eid |-> id, time |-> time, type |-> type, sender |-> sender,
     receiver |-> receiver, channel |-> channel, msg |-> message, cause |-> why]

\* ---- Scheduler: the scheduling calls, as functions of the queue q and of
\* the current time now ------------------------------------------------------
send_msg_delayed_sentinel(q, now, timedelta, sender, channel, message, id) ==
    q \cup {ScheduledEvent(id, SimTimeAdd(now, timedelta), "EndSimulation",
                           sender, 0, channel, message, 0)}

send_msg_delayed(q, now, timedelta, sender, channel, message, id) ==
    q \cup {ScheduledEvent(id, SimTimeAdd(now, timedelta), "MsgSendEvent",
                           sender, 0, channel, message, 0)}

send_msg(q, now, sender, channel, message, id) ==
    send_msg_delayed(q, now, NO_DELTA, sender, channel, message, id)

sched_receive_msg_now(q, now, timedelta, receiver, channel, message, id, why) ==
    q \cup {ScheduledEvent(id, now, "MsgRcvEvent",
                           0, receiver, channel, message, why)}

sched_receive_msg(q, now, timedelta, receiver, channel, message, id, why) ==
    q \cup {ScheduledEvent(id, SimTimeAdd(now, timedelta), "MsgRcvEvent",
                           0, receiver, channel, message, why)}

sched_self_event_from_nobody(q, now, timedelta, process, id) ==
    q \cup {ScheduledEvent(id, SimTimeAdd(now, timedelta), "ProcessEvent",
                           0, process, 0, NoMsg, 0)}

sched_self_event(q, now, timedelta, process, id) ==
    q \cup {ScheduledEvent(id, SimTimeAdd(now, timedelta), "ProcessEvent",
                           process, process, 0, NoMsg, 0)}

\* The next free event number, and the history entry of a new event.
NextEid == Cardinality(DOMAIN hist) + 1

Fresh(q) == [e \in {x.eid : x \in q \ events} |->
                [ev |-> CHOOSE x \in q : x.eid = e, n |-> 0, at |-> 0, h |-> "", to |-> 0]]

Record(q) == Fresh(q) @@ hist


\* Events scheduled by client calls (not by a channel's message_from).
ClientEvents == {e \in DOMAIN hist : hist[e].ev.cause = 0}

\* ---- components and channels --------------------------------------------
Component(state, uid) ==
    [state |-> state, uid |-> uid, parent |-> 0, root |-> 0, channels |-> <<>>]

\* ProcessBuilder::build_component: the first component built is the root.
build_component(uid) ==
    Component(IF has_root THEN "Unmarked" ELSE "Root", uid)

\* A client component of the framework: no algorithm state.
build_generic == Component("Generic", 0)

\* DelayChannel { id, left, right, delay }
Channel(id, left, right, delay) ==
    [id |-> id, left |-> left, right |-> right, delay |-> delay]

\* ComponentBase::add_channel: the component records the adjacency.
comp_add_channel(comps, p, channel_id) ==
    [comps EXCEPT ![p].channels = Append(@, channel_id)]

\* Channel::message_from: the endpoint that is not the sender.
OtherEnd(ch, sender) == IF sender = ch.left THEN ch.right ELSE ch.left

IsEndpoint(ch, sender) == sender = ch.left \/ sender = ch.right

\* ---- initial state -------------------------------------------------------
Init ==
    /\ ID_COUNTER = FIRST_ID
    /\ components = << >>
    /\ channels = << >>
    /\ has_root = FALSE
    /\ events = {}
    /\ curr_time = 0
    /\ sim_status = "Ok"
    /\ pc = "setup"
    /\ todo = {}
    /\ uids = {}
    /\ op = [name |-> "new", ret |-> -1]
    /\ hist = << >>
    /\ lastPop = 0
    /\ termCount = << >>
    /\ valCount = 0
    /\ valSeen = {}
    /\ failedIn = ""
    /\ initCount = << >>

\* ---- Simulation: topology setup -----------------------------------------
\* ID_COUNTER.fetch_add(1, SeqCst) returns the value before the addition.
generate_next_id_stuck == IF ID_COUNTER > FIRST_ID THEN ID_COUNTER - 1 ELSE ID_COUNTER

generate_next_id == ID_COUNTER

\* Simulation::add_process(builder); made is what build_component returns.
add_process(made) ==
    /\ pc = "setup"
    /\ LET id == generate_next_id IN
        /\ ID_COUNTER' = ID_COUNTER + 1
        /\ components' = (id :> made) @@ components
        /\ termCount' = (id :> 0) @@ termCount
        /\ initCount' = (id :> 0) @@ initCount
        /\ op' = [name |-> "add_process", ret |-> id]
    /\ UNCHANGED <<channels, sched, pc, todo, hist, lastPop, valCount, valSeen, failedIn>>

\* The two add_channel calls on the endpoints (sim.rs:50-53); p0 is known to
\* be registered, p1 may not be.
add_channel_twice(comps, p0, p1, channel_id) ==
    comp_add_channel(comp_add_channel(comps, p0, channel_id), p0, channel_id)

add_channel_ends(comps, p0, p1, channel_id) ==
    IF p1 \in DOMAIN comps
    THEN comp_add_channel(comp_add_channel(comps, p0, channel_id), p1, channel_id)
    ELSE comp_add_channel(comps, p0, channel_id)

\* Simulation::add_channel(p0, p1): an endpoint that is no registered
\* component makes the unwrap panic, after the channel is stored.
add_channel(p0, p1, delay) ==
    /\ pc = "setup"
    /\ LET channel_id == generate_next_id IN
        /\ ID_COUNTER' = ID_COUNTER + 1
        /\ channels' = (channel_id :> Channel(channel_id, p0, p1, delay)) @@ channels
        /\ components' = IF p0 \in DOMAIN components
                         THEN add_channel_ends(components, p0, p1, channel_id)
                         ELSE components
        /\ pc' = IF p0 \in DOMAIN components /\ p1 \in DOMAIN components
                 THEN "setup" ELSE "panic"
        /\ op' = [name |-> "add_channel", ret |-> channel_id]
    /\ UNCHANGED <<has_root, uids, sched, todo, hist, lastPop, termv>>

\* assert!(self.curr_time.is_zero()) guards the push.
self_event_allowed_always == TRUE

self_event_allowed == is_zero(curr_time)

\* ---- Simulation::call_init ------------------------------------------------
\* The caller goes on to call_init: the loop over components.values_mut()
\* starts; a HashMap's iteration order is arbitrary.
call_init ==
    /\ pc = "setup"
    /\ components # << >>
    /\ pc' = "init"
    /\ todo' = DOMAIN components
    /\ op' = [name |-> "call_init", ret |-> -1]
    /\ UNCHANGED <<topo, sched, hist, lastPop, termv>>

\* The components one pass of call_init's loop hands to init.
init_skip(p) == {}

init_visit(p) == {p}

\* One iteration of call_init's loop: p.init(...).  A client component's
\* init is the calls it makes until handler_return; Process::init schedules
\* the root's self event.
init_one(p) ==
    /\ pc = "init"
    /\ p \in todo
    /\ todo' = todo \ {p}
    /\ initCount' = [c \in DOMAIN initCount |->
                        IF c \in init_visit(p) THEN initCount[c] + 1 ELSE initCount[c]]
    /\ op' = [name |-> "init", ret |-> p]
    /\ IF components[p].state = "Generic"
       THEN /\ pc' = "init_h"
            /\ UNCHANGED <<events, hist>>
       ELSE IF components[p].state # "Root"
       THEN UNCHANGED <<pc, events, hist>>
       ELSE IF self_event_allowed
       THEN /\ events' = sched_self_event(events, curr_time, NO_DELTA, p, NextEid)
            /\ hist' = Record(events')
            /\ UNCHANGED pc
       ELSE /\ pc' = "panic"
            /\ UNCHANGED <<events, hist>>
    /\ UNCHANGED <<topo, curr_time, sim_status, lastPop, termCount, valCount, valSeen, failedIn>>

\* call_init has visited every component and returns; the caller calls run().
run ==
    /\ pc = "init"
    /\ todo = {}
    /\ pc' = "run"
    /\ op' = [name |-> "run", ret |-> -1]
    /\ UNCHANGED <<topo, sched, todo, hist, lastPop, termv>>

\* ---- a client handler's calls of the scheduler --------------------------
InHandler == pc \in {"init_h", "run_h"}

MayCall == InHandler

MaySchedule == MayCall /\ Cardinality(ClientEvents) < MaxEvents

Deltas == 0 .. MaxDelta

call_send_msg_delayed(timedelta, sender, channel) ==
    /\ MaySchedule
    /\ events' = send_msg_delayed(events, curr_time, timedelta, sender, channel, NoMsg, NextEid)
    /\ hist' = Record(events')
    /\ op' = [name |-> "send_msg_delayed", ret |-> NextEid]
    /\ UNCHANGED <<topo, curr_time, sim_status, pc, todo, lastPop, termv>>

call_send_msg(sender, channel) ==
    /\ MaySchedule
    /\ events' = send_msg(events, curr_time, sender, channel, NoMsg, NextEid)
    /\ hist' = Record(events')
    /\ op' = [name |-> "send_msg", ret |-> NextEid]
    /\ UNCHANGED <<topo, curr_time, sim_status, pc, todo, lastPop, termv>>

call_sched_receive_msg(timedelta, receiver, channel) ==
    /\ MaySchedule
    /\ events' = sched_receive_msg(events, curr_time, timedelta, receiver, channel, NoMsg, NextEid, 0)
    /\ hist' = Record(events')
    /\ op' = [name |-> "sched_receive_msg", ret |-> NextEid]
    /\ UNCHANGED <<topo, curr_time, sim_status, pc, todo, lastPop, termv>>

call_sched_self_event(timedelta, process) ==
    /\ MaySchedule
    /\ IF self_event_allowed
       THEN /\ events' = sched_self_event(events, curr_time, timedelta, process, NextEid)
            /\ hist' = Record(events')
            /\ op' = [name |-> "sched_self_event", ret |-> NextEid]
            /\ UNCHANGED pc
       ELSE /\ pc' = "panic"
            /\ op' = [name |-> "sched_self_event", ret |-> -1]
            /\ UNCHANGED <<events, hist>>
    /\ UNCHANGED <<topo, curr_time, sim_status, todo, lastPop, termv>>

\* Scheduler::next_event, lines 139-141: the failure flag short-circuits.
failure_seen_never == FALSE

failure_seen == sim_status = "Failure"

\* SimTime::advance_to's assertion.
advance_ok(new_time) == curr_time <= new_time

\* History: next_event handed the event to its caller, which is not a
\* dispatch by the driver.
Taken(h, event) == [h EXCEPT ![event.eid] = [@ EXCEPT !.h = "next_event"]]

call_next_event ==
    /\ MayCall
    /\ IF failure_seen \/ events = {}
       THEN /\ op' = [name |-> "next_event", ret |-> EndSimulation]
            /\ UNCHANGED <<events, curr_time, pc, lastPop, hist>>
       ELSE \E event \in HeapTop(events) :
            /\ events' = events \ {event}
            /\ op' = [name |-> "next_event", ret |-> event.eid]
            /\ lastPop' = event.time
            /\ hist' = Taken(hist, event)
            /\ IF advance_ok(event.time)
               THEN curr_time' = event.time /\ UNCHANGED pc
               ELSE pc' = "panic" /\ UNCHANGED curr_time
    /\ UNCHANGED <<topo, sim_status, todo, termv>>

call_sim_error ==
    /\ MayCall
    /\ sim_status' = "Failure"
    /\ failedIn' = IF failedIn = "" THEN pc ELSE failedIn
    /\ op' = [name |-> "sim_error", ret |-> -1]
    /\ UNCHANGED <<topo, events, curr_time, pc, todo, hist, lastPop, termCount, valCount,
                   valSeen, initCount>>

\* The handler returns to the loop that called it.
handler_return ==
    /\ InHandler
    /\ pc' = IF pc = "init_h" THEN "init" ELSE "run"
    /\ op' = [name |-> "return", ret |-> -1]
    /\ UNCHANGED <<topo, sched, todo, hist, lastPop, termv>>

\* ---- the example's Process (spanning_tree.rs) ----------------------------
Message(root, sender) == [root |-> root, sender |-> sender]

\* `for channel in chans { scheduler.send_msg(sim_id, channel, msg) }`:
\* the k-th message sent gets the k-th free event number.
SendOnAll(q, now, sim_id, chans, msg, id) ==
    q \cup UNION {send_msg({}, now, sim_id, chans[k], msg, id + k - 1) : k \in 1 .. Len(chans)}

\* Process::process_event: the root sends (uid, uid) on every channel.
process_event(q, now, p, id) ==
    SendOnAll(q, now, p, components[p].channels,
              Message(components[p].uid, components[p].uid), id)

\* Process::receive_msg, the Unmarked arm: the channels the message is
\* forwarded on.
ForwardAll(p, incoming_channel) == components[p].channels

ForwardChannels(p, incoming_channel) ==
    LET NotIncoming(channel) == incoming_channel # channel
    IN  SelectSeq(components[p].channels, NotIncoming)

receive_msg_sends(q, now, p, incoming_channel, msg, id) ==
    SendOnAll(q, now, p, ForwardChannels(p, incoming_channel),
              Message(msg.root, components[p].uid), id)

MarkNot(p, msg) == components

MarkWithOwnUid(p, msg) ==
    [components EXCEPT ![p].state = "Marked", ![p].parent = components[p].uid,
                       ![p].root = msg.root]

Mark(p, msg) ==
    [components EXCEPT ![p].state = "Marked", ![p].parent = msg.sender,
                       ![p].root = msg.root]

\* ---- Simulation::step ----------------------------------------------------
Dispatched(h, event, handler, target, now) ==
    [h EXCEPT ![event.eid] = [@ EXCEPT !.n = @ + 1, !.at = now, !.h = handler,
                                       !.to = target]]

\* sim.rs:76-84: the clock after the pop (the assertion is step_time_ok).
step_time_ok(event) == ~(curr_time > event.time)

step_time(event) == IF curr_time < event.time THEN event.time ELSE curr_time

\* The ProcessEvent arm (sim.rs:87-90).
step_process_event(event, q, now) ==
    LET p == event.receiver IN
    IF p \notin DOMAIN components
    THEN /\ pc' = "panic"
         /\ events' = q
         /\ UNCHANGED <<components, hist>>
    ELSE IF components[p].state = "Generic"
    THEN /\ pc' = "run_h"
         /\ events' = q
         /\ hist' = Dispatched(hist, event, "process_event", p, now)
         /\ UNCHANGED components
    ELSE IF event.sender # p
    THEN /\ pc' = "panic"
         /\ events' = q
         /\ hist' = Dispatched(hist, event, "process_event", p, now)
         /\ UNCHANGED <<components>>
    ELSE /\ events' = process_event(q, now, p, NextEid)
         /\ hist' = Dispatched(Record(events'), event, "process_event", p, now)
         /\ UNCHANGED <<components, pc>>

\* The MsgSendEvent arm (sim.rs:91-94) and Channel::message_from.
step_msg_send_event(event, q, now) ==
    LET c == event.channel IN
    IF c \notin DOMAIN channels
    THEN /\ pc' = "panic"
         /\ events' = q
         /\ UNCHANGED <<components, hist>>
    ELSE IF ~IsEndpoint(channels[c], event.sender)
    THEN /\ pc' = "panic"
         /\ events' = q
         /\ hist' = Dispatched(hist, event, "message_from", c, now)
         /\ UNCHANGED <<components>>
    ELSE /\ events' = sched_receive_msg(q, now, channels[c].delay,
                                        OtherEnd(channels[c], event.sender),
                                        channels[c].id, event.msg, NextEid, event.eid)
         /\ hist' = Dispatched(Record(events'), event, "message_from", c, now)
         /\ UNCHANGED <<components, pc>>

\* The MsgRcvEvent arm (sim.rs:95-99) and Process::receive_msg.
step_msg_rcv_event_as_process(event, q, now) == step_process_event(event, q, now)

step_msg_rcv_event(event, q, now) ==
    LET p == event.receiver IN
    IF p \notin DOMAIN components
    THEN /\ pc' = "panic"
         /\ events' = q
         /\ UNCHANGED <<components, hist>>
    ELSE IF components[p].state = "Generic"
    THEN /\ pc' = "run_h"
         /\ events' = q
         /\ hist' = Dispatched(hist, event, "receive_msg", p, now)
         /\ UNCHANGED components
    ELSE IF components[p].state = "Unmarked"
    THEN /\ events' = receive_msg_sends(q, now, p, event.channel, event.msg, NextEid)
         /\ components' = Mark(p, event.msg)
         /\ hist' = Dispatched(Record(events'), event, "receive_msg", p, now)
         /\ UNCHANGED pc
    ELSE IF components[p].state = "Root"
    THEN /\ pc' = "panic"
         /\ events' = q
         /\ hist' = Dispatched(hist, event, "receive_msg", p, now)
         /\ UNCHANGED <<components>>
    ELSE /\ events' = q
         /\ hist' = Dispatched(hist, event, "receive_msg", p, now)
         /\ UNCHANGED <<components, pc>>

\* What the heap's pop leaves in the queue.  step pops
\* self.scheduler.events directly (sim.rs:67): the failure flag is not
\* consulted.
pop_keeps(q, event) == q

pop_all(q, event) == {}

pop_rest(q, event) == q \ {event}

step ==
    /\ pc = "run"
    /\ IF events = {}
       THEN /\ pc' = "ran"
            /\ op' = [name |-> "step", ret |-> 0]
            /\ UNCHANGED <<components, events, curr_time, hist, lastPop>>
       ELSE \E event \in HeapTop(events) :
            /\ op' = [name |-> "step", ret |-> event.eid]
            /\ lastPop' = event.time
            /\ IF ~step_time_ok(event)
               THEN /\ pc' = "panic"
                    /\ events' = pop_rest(events, event)
                    /\ UNCHANGED <<components, curr_time, hist>>
               ELSE /\ curr_time' = step_time(event)
                    /\ CASE event.type = "ProcessEvent" ->
                                step_process_event(event, pop_rest(events, event), curr_time')
                         [] event.type = "MsgSendEvent" ->
                                step_msg_send_event(event, pop_rest(events, event), curr_time')
                         [] event.type = "MsgRcvEvent" ->
                                step_msg_rcv_event(event, pop_rest(events, event), curr_time')
    /\ UNCHANGED <<ID_COUNTER, channels, has_root, uids, sim_status, todo, termv>>

\* ---- Simulation::call_terminate ------------------------------------------
\* run() has returned and the caller calls call_terminate: its loop starts.
call_terminate ==
    /\ pc = "ran"
    /\ pc' = "terminate"
    /\ todo' = DOMAIN components
    /\ op' = [name |-> "call_terminate", ret |-> -1]
    /\ UNCHANGED <<topo, sched, hist, lastPop, termv>>

\* Process::terminate asserts that the process is not Unmarked.
terminate_ok_always(p) == TRUE

terminate_ok(p) == components[p].state # "Unmarked"

\* The components one pass of the loop hands to terminate.
terminate_skip(p) == {}

terminate_visit(p) == {p}

\* One iteration of the loop: p.terminate(env).  A client component's
\* terminate may abort the run (aborts), as Process::terminate does.
terminate_one(p, aborts) ==
    /\ pc = "terminate"
    /\ p \in todo
    /\ todo' = todo \ {p}
    /\ termCount' = [c \in DOMAIN termCount |->
                        IF c \in terminate_visit(p) THEN termCount[c] + 1 ELSE termCount[c]]
    /\ pc' = IF components[p].state = "Generic"
             THEN (IF aborts THEN "panic" ELSE "terminate")
             ELSE (IF terminate_ok(p) THEN "terminate" ELSE "panic")
    /\ op' = [name |-> "terminate", ret |-> p]
    /\ UNCHANGED <<topo, sched, hist, lastPop, valCount, valSeen, failedIn, initCount>>

\* assert!(validate(&self.components)), after the loop.
validate(result) ==
    /\ pc = "terminate"
    /\ todo = {}
    /\ valCount' = valCount + 1
    /\ valSeen' = DOMAIN components
    /\ pc' = IF result THEN "terminated" ELSE "panic"
    /\ op' = [name |-> "validate", ret |-> IF result THEN 1 ELSE 0]
    /\ UNCHANGED <<topo, sched, todo, hist, lastPop, termCount, failedIn, initCount>>

\* The example's predicate: no component remains Unmarked.
no_unmarked == \A p \in DOMAIN components : components[p].state # "Unmarked"

\* ---- the driver with client components ----------------------------------
add_client ==
    /\ add_process(build_generic)
    /\ UNCHANGED <<has_root, uids>>

Delays == 0 .. MaxDelay

Next ==
    \/ ID_COUNTER <= MaxIds /\ add_client
    \/ /\ ID_COUNTER <= MaxIds
       /\ \E p0 \in Minted, p1 \in Minted, delay \in Delays : add_channel(p0, p1, delay)
    \/ call_init
    \/ \E p \in todo : init_one(p)
    \/ run
    \/ \E timedelta \in Deltas, sender \in DOMAIN components, channel \in DOMAIN channels :
            call_send_msg_delayed(timedelta, sender, channel)
    \/ \E sender \in DOMAIN components, channel \in Minted : call_send_msg(sender, channel)
    \/ \E timedelta \in Deltas, receiver \in Minted, channel \in DOMAIN channels :
            call_sched_receive_msg(timedelta, receiver, channel)
    \/ \E timedelta \in Deltas, process \in DOMAIN components :
            call_sched_self_event(timedelta, process)
    \/ call_next_event
    \/ call_sim_error
    \/ handler_return
    \/ step
    \/ call_terminate
    \/ \E p \in todo, aborts \in BOOLEAN : terminate_one(p, aborts)
    \/ \E result \in BOOLEAN : validate(result)

Spec == Init /\ [][Next]_vars

\* ---- topology setup alone, to a larger bound -----------------------------
TopoNext ==
    \/ ID_COUNTER <= MaxTopoIds /\ add_client
    \/ /\ ID_COUNTER <= MaxTopoIds
       /\ \E p0 \in Minted, p1 \in Minted, delay \in Delays : add_channel(p0, p1, delay)

TopoSpec == Init /\ [][TopoNext]_vars

\* ---- the driver with the example's processes ----------------------------
\* UIdGenRandom::generate_uid: a uid not handed out before.
generate_uid == (1 .. MaxUid) \ uids

\* RandomDelayChannelBuilder::build_channel: gen_range(1..11) milliseconds.
TreeDelays == {d \in DELAY_MS_LO .. DELAY_MS_HI : d <= MaxTreeDelay}

add_tree_process(uid) ==
    /\ add_process(build_component(uid))
    /\ has_root' = TRUE
    /\ uids' = uids \cup {uid}

TreeNext ==
    \/ /\ Cardinality(DOMAIN components) < MaxTreeProcs
       /\ \E uid \in generate_uid : add_tree_process(uid)
    \/ /\ Cardinality(DOMAIN channels) < MaxTreeChannels
       /\ \E p0 \in Minted, p1 \in Minted, delay \in TreeDelays : add_channel(p0, p1, delay)
    \/ call_init
    \/ \E p \in todo : init_one(p)
    \/ run
    \/ step
    \/ call_terminate
    \/ \E p \in todo : terminate_one(p, FALSE)
    \/ validate(no_unmarked)

TreeSpec == Init /\ [][TreeNext]_vars

\* run() is `while self.step(){}`: once called it keeps stepping.
TreeLiveSpec == Init /\ [][TreeNext]_vars /\ WF_vars(step)

\* ---- the example's processes on simple graphs ----------------------------
\* A channel builder with a fixed delay of zero.
ZeroDelays == {0}

GraphDelays == ZeroDelays \cup TreeDelays

\* No channel joins p0 and p1 yet.
Unjoined(p0, p1) == \A c \in DOMAIN channels : {channels[c].left, channels[c].right} # {p0, p1}

\* add_channel between two distinct registered processes that no channel
\* joins yet: the topology stays a simple graph.
add_simple_channel(p0, p1, delay) ==
    /\ p0 < p1
    /\ Unjoined(p0, p1)
    /\ add_channel(p0, p1, delay)

GraphNext ==
    \/ /\ Cardinality(DOMAIN components) < MaxGraphProcs
       /\ \E uid \in generate_uid : add_tree_process(uid)
    \/ /\ Cardinality(DOMAIN channels) < MaxGraphChannels
       /\ \E p0 \in DOMAIN components, p1 \in DOMAIN components, delay \in GraphDelays :
             add_simple_channel(p0, p1, delay)
    \/ call_init
    \/ \E p \in todo : init_one(p)
    \/ run
    \/ step
    \/ call_terminate
    \/ \E p \in todo : terminate_one(p, FALSE)
    \/ validate(no_unmarked)

GraphSpec == Init /\ [][GraphNext]_vars

\* ---- the run loop with client components, under fairness ------------------
\* run() keeps calling step until it returns false, and every handler runs
\* to completion (it returns or aborts).
LiveNext ==
    \/ ID_COUNTER <= MaxLiveIds /\ add_client
    \/ /\ ID_COUNTER <= MaxLiveIds
       /\ \E p0 \in Minted, p1 \in Minted, delay \in Delays : add_channel(p0, p1, delay)
    \/ call_init
    \/ \E p \in todo : init_one(p)
    \/ run
    \/ \E timedelta \in Deltas, sender \in DOMAIN components, channel \in DOMAIN channels :
            call_send_msg_delayed(timedelta, sender, channel)
    \/ \E sender \in DOMAIN components, channel \in Minted : call_send_msg(sender, channel)
    \/ \E timedelta \in Deltas, receiver \in Minted, channel \in DOMAIN channels :
            call_sched_receive_msg(timedelta, receiver, channel)
    \/ \E timedelta \in Deltas, process \in DOMAIN components :
            call_sched_self_event(timedelta, process)
    \/ call_next_event
    \/ call_sim_error
    \/ handler_return
    \/ step

LiveSpec == Init /\ [][LiveNext]_vars /\ WF_vars(step) /\ WF_vars(handler_return)

\* ========================================================================
\* Properties
\* ========================================================================
Dispatches == {x \in DOMAIN hist : hist[x].n > 0}

\* The event a step removes from the queue: what the pop returned.
PoppedNow == events \ events'

\* C1: pops (next_event, and the pop inside step) return events in
\* non-decreasing time order, and the current time never decreases, also when
\* queued events share a timestamp.
C1_PopOrder ==
    [][/\ curr_time' >= curr_time
       /\ \A e \in PoppedNow : e.time >= lastPop /\ e.time >= curr_time
       /\ \A e \in PoppedNow : \A f \in events' : f.time >= e.time]_vars

\* A pop at time 1 after a dispatch at time 0, with another event of time 1
\* still queued.
C1_Witness ==
    /\ op.name \in {"step", "next_event"}
    /\ op.ret > 0
    /\ lastPop = 1
    /\ \E e \in events : e.time = lastPop
    /\ \E x \in Dispatches : hist[x].ev.time = 0

\* The handler step invokes for an event of each kind, and its target.
HandlerOf(e) ==
    IF e.type = "ProcessEvent" THEN "process_event"
    ELSE IF e.type = "MsgSendEvent" THEN "message_from" ELSE "receive_msg"

TargetOf(e) == IF e.type = "MsgSendEvent" THEN e.channel ELSE e.receiver

\* C2: every event is dispatched at most once, and only an event that a
\* scheduling call placed in the queue is dispatched; the dispatch removes it.
C2_AtMostOnce ==
    [][\A x \in DOMAIN hist' :
          /\ x \notin DOMAIN hist => hist'[x].n = 0 /\ hist'[x].ev \in events'
          /\ (x \in DOMAIN hist /\ hist'[x].n # hist[x].n) =>
                /\ hist[x].n = 0
                /\ hist'[x].n = 1
                /\ hist[x].ev \in events
                /\ hist[x].ev \notin events'
                /\ hist'[x].ev = hist[x].ev
                /\ hist'[x].h = HandlerOf(hist[x].ev)
                /\ hist'[x].to = TargetOf(hist[x].ev)]_vars

\* Two events have been dispatched, one of them by a component, one by a
\* channel.
C2_Witness ==
    /\ \E x \in Dispatches : hist[x].h = "message_from"
    /\ \E x \in Dispatches : hist[x].h = "receive_msg"

\* C3: once sim_error has been called the flag stays set, and every
\* next_event returns EndSimulation and leaves queue and clock unchanged.
C3_FailureSticky ==
    [][/\ sim_status = "Failure" => sim_status' = "Failure"
       /\ (sim_status = "Failure" /\ op'.name = "next_event") =>
              /\ op'.ret = EndSimulation
              /\ events' = events
              /\ curr_time' = curr_time]_vars

\* next_event has returned EndSimulation although events are queued.
C3_Witness ==
    /\ sim_status = "Failure"
    /\ op.name = "next_event"
    /\ op.ret = EndSimulation
    /\ events # {}

\* C4: when the failure signal was raised during a dispatch inside run(),
\* run() dispatches no further event: every later step() leaves the queued
\* events undispatched.
C4_NoDispatchAfterFailure ==
    [][failedIn = "run_h" => \A x \in DOMAIN hist : hist'[x].n = hist[x].n]_vars

\* MsgSendEvents that were dispatched to a channel by one of its endpoints.
SentByEndpoint ==
    {x \in Dispatches : /\ hist[x].ev.type = "MsgSendEvent"
                        /\ hist[x].ev.channel \in DOMAIN channels
                        /\ IsEndpoint(channels[hist[x].ev.channel], hist[x].ev.sender)}

\* The events scheduled because event x was dispatched to its channel.
CausedBy(x) == {r \in DOMAIN hist : hist[r].ev.cause = x}

\* The delivery the dispatch of MsgSendEvent x owes: one MsgRcvEvent, on the
\* same channel, due at dispatch time + delay, handed to receive_msg of its
\* receiver at exactly that time.
DeliveredOnce(x) ==
    LET ch == channels[hist[x].ev.channel]
        due == hist[x].at + ch.delay
    IN  /\ Cardinality(CausedBy(x)) = 1
        /\ \A r \in CausedBy(x) :
              /\ hist[r].ev.type = "MsgRcvEvent"
              /\ hist[r].ev.channel = ch.id
              /\ hist[r].ev.receiver \in {ch.left, ch.right}
              /\ hist[r].ev.time = due
              /\ hist[r].ev.msg = hist[x].ev.msg
              /\ hist[r].n > 0 => /\ hist[r].h = "receive_msg"
                                  /\ hist[r].to = hist[r].ev.receiver
                                  /\ hist[r].at = due

ToOtherEnd(x) ==
    LET ch == channels[hist[x].ev.channel]
    IN  \A r \in CausedBy(x) : hist[r].ev.receiver \in {ch.left, ch.right} \ {hist[x].ev.sender}

C6_TerminateOnce ==
    /\ \A p \in DOMAIN components : termCount[p] <= 1
    /\ valCount <= 1
    /\ pc = "terminate" =>
          \A p \in DOMAIN components : termCount[p] = (IF p \in todo THEN 0 ELSE 1)
    /\ pc \in {"setup", "init", "init_h", "run", "run_h", "ran"} =>
          valCount = 0 /\ \A p \in DOMAIN components : termCount[p] = 0
    /\ valCount = 1 =>
          /\ \A p \in DOMAIN components : termCount[p] = 1
          /\ valSeen = DOMAIN components
    /\ pc = "terminated" => valCount = 1

\* call_terminate has returned after a run in which sim_error was called.
C6_Witness ==
    /\ pc = "terminated"
    /\ sim_status = "Failure"
    /\ Cardinality(DOMAIN components) >= 2
    /\ valCount = 1

\* How many add_channel(channel_id) calls a component has observed.
Observed(comps, p, channel_id) ==
    Cardinality({i \in DOMAIN comps[p].channels : comps[p].channels[i] = channel_id})

\* A step that is a completed Simulation::add_channel call.
AddedChannel == op'.name = "add_channel" /\ ID_COUNTER' # ID_COUNTER /\ pc' = "setup"

\* Nothing a component had observed before the call is changed by it.
AdjacencyKept(p) ==
    \/ components'[p].channels = components[p].channels
    \/ \E k \in 1 .. 2 : SubSeq(components'[p].channels, 1, Len(components'[p].channels) - k)
                            = components[p].channels

\* C7 as claimed: for every registered a and b, add_channel(a, b) makes a and
\* b observe exactly one add_channel(newId) each and changes no other
\* component.
C7_EachEndpointOnce ==
    [][AddedChannel =>
        LET id == op'.ret
            ch == channels'[id]
        IN  \A p \in DOMAIN components :
               /\ AdjacencyKept(p)
               /\ Observed(components', p, id) = (IF p \in {ch.left, ch.right} THEN 1 ELSE 0)
               /\ p \notin {ch.left, ch.right} => components'[p] = components[p]]_vars

\* C7, amended: for registered a # b each of the two observes exactly one
\* add_channel(newId); add_channel(a, a) makes a observe two; in both cases
\* newId is the id returned, it was never observed before, and no other
\* component changes.
C7_Endpoints ==
    [][AddedChannel =>
        LET id == op'.ret
            ch == channels'[id]
        IN  /\ id \notin DOMAIN channels
            /\ \A p \in DOMAIN components :
                  /\ AdjacencyKept(p)
                  /\ Observed(components, p, id) = 0
                  /\ Observed(components', p, id) =
                        (IF p \notin {ch.left, ch.right} THEN 0
                         ELSE IF ch.left # ch.right THEN 1 ELSE 2)
                  /\ p \notin {ch.left, ch.right} => components'[p] = components[p]]_vars

\* A second channel has just been added between two distinct components,
\* with a third component that is no endpoint of it.
C7_Witness ==
    /\ op.name = "add_channel"
    /\ pc = "setup"
    /\ Cardinality(DOMAIN channels) = 2
    /\ Cardinality(DOMAIN components) = 3
    /\ channels[op.ret].left # channels[op.ret].right
    /\ \A p \in DOMAIN components :
          Observed(components, p, op.ret) =
             (IF p \in {channels[op.ret].left, channels[op.ret].right} THEN 1 ELSE 0)

\* C8: the ids handed out are pairwise distinct, across components and
\* channels, and strictly increasing.
C8_FreshIds ==
    [][/\ ID_COUNTER' # ID_COUNTER =>
            /\ op'.ret \notin Ids
            /\ \A i \in Ids : op'.ret > i
            /\ op'.ret \in (DOMAIN components' \cup DOMAIN channels') \ Ids
       /\ DOMAIN components' \cap DOMAIN channels' = {}
       /\ Cardinality(DOMAIN components') + Cardinality(DOMAIN channels')
             = ID_COUNTER' - FIRST_ID]_vars

\* Components and channels have been added alternately.
C8_Witness ==
    /\ Cardinality(DOMAIN components) >= 2
    /\ Cardinality(DOMAIN channels) >= 2
    /\ \E c \in DOMAIN channels : \E p \in DOMAIN components : c < p
    /\ op.ret = ID_COUNTER - 1

\* A step that is a client's call of sched_self_event.
SelfEventCall == op'.name = "sched_self_event" /\ (hist' # hist \/ pc' # pc)

SelfEventFails == pc' = "panic" /\ events' = events /\ hist' = hist /\ op'.ret = -1

SelfEventSucceeds ==
    /\ pc' = pc
    /\ \E e \in events' :
          /\ e \notin events
          /\ events' = events \cup {e}
          /\ e.type = "ProcessEvent"
          /\ e.sender = e.receiver
          /\ e.time >= curr_time
          /\ e.eid = op'.ret

\* C9 as claimed: a call at a non-zero time fails fatally and enqueues
\* nothing, and a call that succeeds is made before the run loop has
\* dispatched any event.
C9_OnlyBeforeRun ==
    [][SelfEventCall =>
          /\ ~is_zero(curr_time) => SelfEventFails
          /\ SelfEventSucceeds => Dispatches = {}]_vars

\* C9, amended: a call at a non-zero time fails fatally and enqueues nothing;
\* a call at time zero succeeds and enqueues one ProcessEvent from the
\* component to itself, also when the run loop has already dispatched events
\* (those scheduled for time zero).
C9_OnlyAtTimeZero ==
    [][SelfEventCall =>
          /\ ~is_zero(curr_time) => SelfEventFails
          /\ is_zero(curr_time) => SelfEventSucceeds]_vars

\* A call after the clock has advanced has failed, after an earlier call
\* succeeded.
C9_Witness ==
    /\ op.name = "sched_self_event"
    /\ op.ret = -1
    /\ pc = "panic"
    /\ curr_time > 0
    /\ \E x \in DOMAIN hist : hist[x].ev.type = "ProcessEvent"

\* The line topology R-B-C: three processes, R the root, one channel between
\* R and B and one between B and C.
Ends(c) == {channels[c].left, channels[c].right}

Line(r, b, c) ==
    /\ DOMAIN components = {r, b, c}
    /\ Cardinality({r, b, c}) = 3
    /\ components[r].state = "Root"
    /\ \E c1, c2 \in DOMAIN channels :
          /\ DOMAIN channels = {c1, c2}
          /\ c1 # c2
          /\ Ends(c1) = {r, b}
          /\ Ends(c2) = {b, c}

RunReturned == pc \in {"ran", "terminate", "terminated"}

\* C10: on the line R-B-C, for every choice of channel delays, when run()
\* has returned R is Root, B is Marked with root and parent R's uid, C is
\* Marked with root R's uid and parent B's uid, and no component is Unmarked.
C10_LineConverges ==
    \A r, b, c \in DOMAIN components :
        (Line(r, b, c) /\ pc \notin {"setup", "init", "run"}) =>
            /\ pc # "panic"
            /\ RunReturned =>
                /\ components[r].state = "Root"
                /\ components[b].state = "Marked"
                /\ components[b].root = components[r].uid
                /\ components[b].parent = components[r].uid
                /\ components[c].state = "Marked"
                /\ components[c].root = components[r].uid
                /\ components[c].parent = components[b].uid
                /\ no_unmarked
                /\ events = {}

\* The run on a line has returned and call_terminate has completed, the
\* channel next to the root being the slower one.
C10_Witness ==
    \E r, b, c \in DOMAIN components :
        /\ Line(r, b, c)
        /\ pc = "terminated"
        /\ \E c1, c2 \in DOMAIN channels :
              /\ Ends(c1) = {r, b}
              /\ Ends(c2) = {b, c}
              /\ channels[c1].delay > channels[c2].delay
        /\ components[c].parent = components[b].uid
        /\ components[b].uid # b

\* Two processes joined by a channel.
Adjacent(a, b) == \E ch \in DOMAIN channels : Ends(ch) = {a, b}

\* Three processes and two channels that join distinct pairs of them: a
\* line, with the root at an end or in the middle.
IsLine ==
    /\ Cardinality(DOMAIN components) = 3
    /\ Cardinality(DOMAIN channels) = 2
    /\ \A ch \in DOMAIN channels : Cardinality(Ends(ch)) = 2 /\ Ends(ch) \subseteq DOMAIN components
    /\ \A c1, c2 \in DOMAIN channels : c1 # c2 => Ends(c1) # Ends(c2)

\* The neighbour of v on the line's path from v to the root r.
TowardRoot(r, v) ==
    IF Adjacent(r, v) THEN r
    ELSE CHOOSE m \in DOMAIN components : Adjacent(r, m) /\ Adjacent(m, v)

\* The final state of the line with root r, as a function of the topology
\* and the uids alone.
LineOutcome(r) ==
    [v \in DOMAIN components |->
        IF v = r THEN [state |-> "Root", root |-> 0, parent |-> 0]
        ELSE [state |-> "Marked", root |-> components[r].uid,
              parent |-> components[TowardRoot(r, v)].uid]]

FinalState(v) ==
    [state |-> components[v].state, root |-> components[v].root,
     parent |-> components[v].parent]

\* C11: on a line, whatever the channels' delays (zero, or any value of the
\* randomized builder's range) and in whatever order events of equal time are
\* popped, the run does not abort and when it has returned every component's
\* state is the one the topology alone determines: the outcome is the same
\* for every choice of delays and tie-breaks.
C11_DelayIndependent ==
    \A r \in DOMAIN components :
        (IsLine /\ components[r].state = "Root") =>
            /\ pc # "panic"
            /\ RunReturned =>
                  /\ events = {}
                  /\ \A v \in DOMAIN components : FinalState(v) = LineOutcome(r)[v]

\* A run on a line with the root in the middle and both channels of delay
\* zero has completed; the two messages the root sent were queued with the
\* same time.
C11_Witness ==
    \E r \in DOMAIN components :
        /\ IsLine
        /\ components[r].state = "Root"
        /\ \A v \in DOMAIN components \ {r} : Adjacent(r, v)
        /\ \A ch \in DOMAIN channels : channels[ch].delay = 0
        /\ pc = "terminated"
        /\ \E x, y \in Dispatches :
              /\ x # y
              /\ hist[x].ev.type = "MsgSendEvent"
              /\ hist[y].ev.type = "MsgSendEvent"
              /\ hist[x].ev.time = hist[y].ev.time
        /\ \A v \in DOMAIN components \ {r} : components[v].parent = components[r].uid


\* The numbers events can have: each client event can cause one delivery.
EventIds == 1 .. (2 * MaxEvents)

Running == pc \in {"run", "run_h"}

Scheduled(x) == x \in DOMAIN hist

DispatchedOnce(x) == Scheduled(x) /\ hist[x].n = 1

\* A handler took the event out of the queue itself, by calling next_event.
TakenByHandler(x) == Scheduled(x) /\ hist[x].n = 0 /\ hist[x].h = "next_event"

Unmarked == {p \in DOMAIN components : components[p].state = "Unmarked"}

\* C13: when a component is still Unmarked at call_terminate, call_terminate
\* does not complete normally: its loop aborts in the terminate of the first
\* Unmarked component it visits, so no Unmarked component ever gets past its
\* terminate, the validation predicate is never reached with one, and the
\* call returns only when no component is Unmarked.
C13_UnmarkedAborts ==
    /\ pc = "terminate" => Unmarked \subseteq todo
    /\ pc = "terminated" => Unmarked = {}
    /\ valCount > 0 => Unmarked = {}
    /\ (pc = "panic" /\ op.name = "terminate") => op.ret \in Unmarked

\* call_terminate has aborted in the terminate of an Unmarked process, after
\* a run that marked another one.
C13_Witness ==
    /\ pc = "panic"
    /\ op.name = "terminate"
    /\ op.ret \in Unmarked
    /\ \E p \in DOMAIN components : components[p].state = "Marked"
    /\ valCount = 0


\* A step of the model that is a call of Simulation::step.
StepCall == pc = "run" /\ op'.name = "step"

\* The target of event e is registered.
Registered(e) ==
    IF e.type = "MsgSendEvent" THEN e.channel \in DOMAIN channels
    ELSE e.receiver \in DOMAIN components

\* C14: step() returns false exactly when the queue is empty at the call,
\* and then changes neither the clock, the queue, the components nor the
\* channels; otherwise it removes exactly one event, an earliest one, and
\* unless the call aborts it invokes exactly one handler, the one of the
\* event's kind on the event's target, and returns true.  The call aborts
\* only when the target is not registered or the handler itself aborts.
C14_Step ==
    [][StepCall =>
        /\ events = {} =>
              /\ op'.ret = 0
              /\ pc' = "ran"
              /\ UNCHANGED <<curr_time, events, components, channels, hist, sim_status>>
        /\ events # {} =>
              \E e \in events :
                 /\ op'.ret = e.eid
                 /\ op'.ret # 0
                 /\ \A f \in events : e.time <= f.time
                 /\ e \notin events'
                 /\ events \ {e} \subseteq events'
                 /\ UNCHANGED channels
                 /\ pc' # "panic" =>
                       /\ pc' \in {"run", "run_h"}
                       /\ Registered(e)
                       /\ hist[e.eid].n = 0
                       /\ hist'[e.eid].n = 1
                       /\ hist'[e.eid].h = HandlerOf(e)
                       /\ hist'[e.eid].to = TargetOf(e)
                       /\ \A x \in DOMAIN hist \ {e.eid} : hist'[x] = hist[x]
                 /\ pc' = "panic" =>
                       \/ ~Registered(e)
                       \/ /\ e.type = "MsgSendEvent"
                          /\ ~IsEndpoint(channels[e.channel], e.sender)]_vars

\* step has returned true after handing a delivery to receive_msg at a time
\* after zero, with another event still queued; the next step will find the
\* queue non-empty.
C14_Witness ==
    /\ op.name = "step"
    /\ op.ret \in DOMAIN hist
    /\ hist[op.ret].h = "receive_msg"
    /\ hist[op.ret].ev.cause # 0
    /\ curr_time > 0
    /\ events # {}
    /\ pc = "run_h"


ProcessEvents == {x \in DOMAIN hist : hist[x].ev.type = "ProcessEvent"}

\* C15: every ProcessEvent that is scheduled, queued or dispatched has its
\* sender equal to its receiver, and it is dispatched to process_event of
\* that component: the sender == self check of process_event cannot fail.
C15_SelfAddressed ==
    /\ \A e \in events : e.type = "ProcessEvent" => e.sender = e.receiver
    /\ \A x \in ProcessEvents :
          /\ hist[x].ev.sender = hist[x].ev.receiver
          /\ hist[x].n > 0 => /\ hist[x].h = "process_event"
                              /\ hist[x].to = hist[x].ev.sender

\* Two ProcessEvents of different components have been dispatched, one
\* scheduled for time 0 and one for time 1.
C15_Witness ==
    \E x, y \in ProcessEvents :
        /\ hist[x].n = 1
        /\ hist[y].n = 1
        /\ hist[x].ev.receiver # hist[y].ev.receiver
        /\ hist[x].ev.time = 0
        /\ hist[y].ev.time = 1
        /\ hist[y].to = hist[y].ev.sender


\* call_init has returned and the run loop has dispatched nothing yet.
InitReturned == (pc = "init" /\ todo = {}) \/ (pc = "run" /\ Dispatches = {})

\* What call_init leaves behind for the example's processes: the self event
\* of the root r, at time zero, and nothing else.
InitResult(r) ==
    /\ events = {ScheduledEvent(1, 0, "ProcessEvent", r, r, 0, NoMsg, 0)}
    /\ DOMAIN hist = {1}
    /\ curr_time = 0
    /\ sim_status = "Ok"
    /\ \A p \in DOMAIN components :
          /\ components[p].state = (IF p = r THEN "Root" ELSE "Unmarked")
          /\ components[p].parent = 0
          /\ components[p].root = 0

QueuedKinds == {"ProcessEvent", "MsgSendEvent", "MsgRcvEvent"}

\* A step of the model that is a call of Scheduler::next_event.
NextEventCall == InHandler /\ op'.name = "next_event"

\* C17: the EndSimulation sentinel is never queued: every queued entry, and
\* every entry ever scheduled, is a ProcessEvent, a MsgSendEvent or a
\* MsgRcvEvent; the pop of next_event returns EndSimulation only when the
\* queue is empty or the failure flag is set, and otherwise returns a queued
\* event, and the pop of step only ever sees the three kinds.
C17_SentinelNeverQueued ==
    [][/\ \A e \in events' : e.type \in QueuedKinds /\ e.eid # EndSimulation
       /\ \A x \in DOMAIN hist' : hist'[x].ev.type \in QueuedKinds
       /\ NextEventCall =>
             /\ op'.ret = EndSimulation => (events = {} \/ sim_status = "Failure")
             /\ op'.ret # EndSimulation => \E e \in events : e.eid = op'.ret /\ e \notin events'
       /\ StepCall =>
             \A e \in PoppedNow : e.type \in QueuedKinds]_vars

\* next_event has returned EndSimulation on an empty queue, without the
\* failure flag, after events of all three kinds had been scheduled.
C17_Witness ==
    /\ op.name = "next_event"
    /\ op.ret = EndSimulation
    /\ events = {}
    /\ sim_status = "Ok"
    /\ \A k \in QueuedKinds : \E x \in DOMAIN hist : hist[x].ev.type = k


\* C18: no queued event is earlier than the current time, so no pop ever
\* returns an event earlier than the clock: the clock is always the time of
\* the last event popped, every dispatch happens at exactly the event's own
\* time, and neither advance_to's assertion nor the time check of step
\* fires.
C18_QueuedNotBeforeNow ==
    /\ \A e \in events : e.time >= curr_time
    /\ lastPop = curr_time
    /\ \A x \in Dispatches : hist[x].at = hist[x].ev.time
    /\ \A x \in DOMAIN hist : hist[x].ev.time >= 0

\* The clock has advanced to 1 by a pop and an event due at 2 is queued.
C18_Witness ==
    /\ curr_time = 1
    /\ lastPop = 1
    /\ \E e \in events : e.time = 2
    /\ \E x \in Dispatches : hist[x].at = 1


\* Every channel has a delay of the randomized builder's range.
BuilderDelays == \A ch \in DOMAIN channels : channels[ch].delay \in DELAY_MS_LO .. DELAY_MS_HI

\* Deliveries that were handed to receive_msg of the root.
RootReceived ==
    {x \in Dispatches : /\ hist[x].h = "receive_msg"
                        /\ components[hist[x].to].state = "Root"}

\* C19: in the spanning-tree algorithm no message is ever delivered to the
\* root, on any simple topology (no channel from a process to itself, no two
\* channels between the same processes) and for any channel delays of the
\* builder's range: the Root arm of receive_msg is never entered.
C19_RootNeverReceives == BuilderDelays => RootReceived = {}


\* The messages component p has sent on channel ch, in history h.
Sent(h, p, ch) ==
    Cardinality({x \in DOMAIN h : /\ h[x].ev.type = "MsgSendEvent"
                                  /\ h[x].ev.sender = p
                                  /\ h[x].ev.channel = ch})

Sends(h) == {x \in DOMAIN h : h[x].ev.type = "MsgSendEvent"}

\* A component's state changes at most once, from Unmarked to Marked, and
\* a Marked component's root and parent stay as they are.
ChangesOnce ==
    \A p \in DOMAIN components :
        /\ components[p].state \in {"Root", "Marked"} => FinalState(p)' = FinalState(p)
        /\ components[p].state = "Unmarked" =>
              \/ FinalState(p)' = FinalState(p)
              \/ components'[p].state = "Marked" /\ pc = "run" /\ pc' = "run"
        /\ components'[p].uid = components[p].uid

\* Only the root before its self event, and an Unmarked component, send.
SendersWereUnmarked ==
    \A x \in Sends(hist') \ Sends(hist) :
        LET p == hist'[x].ev.sender
        IN  \/ components[p].state = "Unmarked" /\ components'[p].state = "Marked"
            \/ components[p].state = "Root" /\ Sends(hist) = {}

\* Every event is the root's self event, a message sent, or the one
\* delivery a dispatched message causes.
EventsBounded(h, most) ==
    /\ Cardinality(Sends(h)) <= most
    /\ Cardinality(DOMAIN h) <= 1 + 2 * Cardinality(Sends(h))

RunEnds == (pc = "run") ~> (pc \in {"ran", "panic"})

=============================================================================
